---- MODULE Spec2Model ----
(***************************************************************************)
(* Model of run_pipeline.py: the sequential pipeline of main(), its file   *)
(* helpers rename_file / copy_file, the command runner run_command, the    *)
(* page-stamping loop and the page-count resolver get_pdf_page_count.      *)
(*                                                                         *)
(* File contents and process outputs are sequences of one-character        *)
(* strings, so that bytes.count and the regular-expression searches of the *)
(* resolver are computed character by character as Python computes them.   *)
(***************************************************************************)
EXTENDS Integers, Sequences, FiniteSets, TLC

VARIABLES pc, exit_status, fs, started, page_count, probe, page, stamp_log

vars == <<pc, exit_status, fs, started, page_count, probe, page, stamp_log>>

(* ---------------------------- bounds ---------------------------------- *)
\* longest file content, in chunks of ContentChunks
MaxChunks == 3
\* largest page count reported by the metadata tools
MaxPages == 3

(* ------------------------ text primitives ----------------------------- *)
\* Python's None for the resolver's result (every int it returns is >= 0)
None == -1

DigitChars == <<"0", "1", "2", "3", "4", "5", "6", "7", "8", "9">>

IsDigit(c) == \E d \in 1..10 : DigitChars[d] = c

DigitVal(c) == (CHOOSE d \in 1..10 : DigitChars[d] = c) - 1

\* \s of the re module, restricted to the characters that occur
IsSpace(c) == c \in {" ", "\n", "\t"}

\* b'/Type /Page'
PageMarker == <<"/", "T", "y", "p", "e", " ", "/", "P", "a", "g", "e">>

\* b'/Type /Pages'
PagesMarker == <<"/", "T", "y", "p", "e", " ", "/", "P", "a", "g", "e", "s">>

\* the literal '/Count' of the last-resort pattern
CountKey == <<"/", "C", "o", "u", "n", "t">>

\* the literal 'kMDItemNumberOfPages'
MdlsKey == <<"k", "M", "D", "I", "t", "e", "m", "N", "u", "m", "b", "e", "r",
             "O", "f", "P", "a", "g", "e", "s">>

\* the literal 'Pages:'
PdfinfoKey == <<"P", "a", "g", "e", "s", ":">>

\* text[i..] starts with lit
MatchAt(text, lit, i) ==
    /\ i >= 1
    /\ i + Len(lit) - 1 <= Len(text)
    /\ SubSeq(text, i, i + Len(lit) - 1) = lit

\* bytes.count(sub): non-overlapping occurrences, scanning left to right
RECURSIVE CountFrom(_, _, _)
CountFrom(content, sub, i) ==
    IF i + Len(sub) - 1 > Len(content) THEN 0
    ELSE IF MatchAt(content, sub, i)
         THEN 1 + CountFrom(content, sub, i + Len(sub))
         ELSE CountFrom(content, sub, i + 1)

BytesCount(content, sub) == CountFrom(content, sub, 1)

\* greedy \s*: first index >= i that is not whitespace (Len+1 at the end)
RECURSIVE SkipSpace(_, _)
SkipSpace(text, i) ==
    IF i <= Len(text) /\ IsSpace(text[i]) THEN SkipSpace(text, i + 1) ELSE i

\* greedy \d+: first index >= i that is not a digit
RECURSIVE SkipDigits(_, _)
SkipDigits(text, i) ==
    IF i <= Len(text) /\ IsDigit(text[i]) THEN SkipDigits(text, i + 1) ELSE i

\* int() of the decimal digits text[i..j-1]
RECURSIVE IntOf(_, _, _)
IntOf(text, i, j) ==
    IF j <= i THEN 0
    ELSE 10 * IntOf(text, i, j - 1) + DigitVal(text[j - 1])

\* re.search(key \s{minSpace,} sep \s* (\d+)): a match of the pattern
\* starting at i, as the index after the separator's whitespace, or 0
GroupStart(text, key, minSpace, sep, i) ==
    IF ~MatchAt(text, key, i) THEN 0
    ELSE LET a == i + Len(key)
             b == SkipSpace(text, a)
             c == IF MatchAt(text, sep, b) THEN SkipSpace(text, b + Len(sep)) ELSE 0
         IN  IF b - a >= minSpace /\ c > 0 /\ c <= Len(text) /\ IsDigit(text[c])
             THEN c ELSE 0

\* int(match.group(1)) of the leftmost match, None when there is no match
SearchInt(text, key, minSpace, sep) ==
    LET hits == {i \in 1..Len(text) : GroupStart(text, key, minSpace, sep, i) > 0}
    IN  IF hits = {} THEN None
        ELSE LET i == CHOOSE h \in hits : \A g \in hits : h <= g
                 c == GroupStart(text, key, minSpace, sep, i)
             IN  IntOf(text, c, SkipDigits(text, c))

(* --------------------- outputs of the external tools ------------------ *)
\* decimal digits of v, as the tools print a number
RECURSIVE Decimal(_)
Decimal(v) ==
    IF v < 10 THEN <<DigitChars[v + 1]>>
    ELSE Decimal(v \div 10) \o <<DigitChars[(v % 10) + 1]>>

\* mdls output for attribute value v: 'kMDItemNumberOfPages = 5'
MdlsFormat(v) == MdlsKey \o <<" ", "=", " ">> \o Decimal(v)

\* mdls output for a file without the attribute
MdlsNull == MdlsKey \o <<" ", "=", " ", "(", "n", "u", "l", "l", ")">>

\* pdfinfo output for a document of v pages: 'Pages:          5'
PdfinfoFormat(v) ==
    <<"T", "i", "t", "l", "e", ":", " ", "x", "\n">> \o PdfinfoKey
        \o <<" ", " ", " ", " ", " ", " ", " ", " ", " ", " ">> \o Decimal(v)
        \o <<"\n">>

\* subprocess.run raised (the program is not installed)
RunRaised == [raised |-> TRUE, returncode |-> 0, stdout |-> <<>>]

\* subprocess.run returned a CompletedProcess
Completed(rc, out) == [raised |-> FALSE, returncode |-> rc, stdout |-> out]

MdlsRuns ==
    {RunRaised, Completed(1, <<>>), Completed(0, MdlsNull)}
        \cup {Completed(0, MdlsFormat(v)) : v \in {0, MaxPages}}

PdfinfoRuns ==
    {RunRaised, Completed(1, <<>>), Completed(0, <<"x">>)}
        \cup {Completed(0, PdfinfoFormat(v)) : v \in {0, 1}}

(* ------------------------ get_pdf_page_count -------------------------- *)
\* mutation of mdls_strategy: the pattern expects ':' where mdls prints '='
mdls_strategy_mut(run) ==
    IF run.raised THEN None
    ELSE IF run.returncode = 0
         THEN SearchInt(run.stdout, MdlsKey, 0, <<":">>)
         ELSE None

\* strategy 1: mdls -name kMDItemNumberOfPages
mdls_strategy(run) ==
    IF run.raised THEN None
    ELSE IF run.returncode = 0
         THEN SearchInt(run.stdout, MdlsKey, 0, <<"=">>)
         ELSE None

\* strategy 2: pdfinfo
pdfinfo_strategy(run) ==
    IF run.raised THEN None
    ELSE IF run.returncode = 0
         THEN SearchInt(run.stdout, PdfinfoKey, 0, <<>>)
         ELSE None

\* mutation of page_heuristic: the else branch is dropped
page_heuristic_mut(count, pages_count) == count - pages_count

\* count - pages_count if count > pages_count else count
page_heuristic(count, pages_count) ==
    IF count > pages_count THEN count - pages_count ELSE count

\* mutation of marker_strategy: the '/Type /Pages' entries are not subtracted
marker_strategy_mut(readable, content) ==
    IF ~readable THEN None ELSE BytesCount(content, PageMarker)

\* strategy 3: the byte markers; readable is FALSE when open/read raises
marker_strategy(readable, content) ==
    IF ~readable THEN None
    ELSE page_heuristic(BytesCount(content, PageMarker),
                        BytesCount(content, PagesMarker))

\* strategy 4: '/Count <integer>' in the latin-1 text (one character a byte)
count_strategy(readable, content) ==
    IF ~readable THEN None
    ELSE SearchInt(content, CountKey, 1, <<>>)

\* the strategies in the order of the code; each returns as soon as it has
\* a match.  consulted lists the strategies that were run.
get_pdf_page_count(mdls, pdfinfo, rd3, rd4, content) ==
    LET r1 == mdls_strategy(mdls)
        r2 == pdfinfo_strategy(pdfinfo)
        r3 == marker_strategy(rd3, content)
        r4 == count_strategy(rd4, content)
    IN  IF r1 # None THEN [result |-> r1, consulted |-> <<"mdls">>]
        ELSE IF r2 # None
             THEN [result |-> r2, consulted |-> <<"mdls", "pdfinfo">>]
        ELSE IF r3 # None
             THEN [result |-> r3, consulted |-> <<"mdls", "pdfinfo", "markers">>]
        ELSE [result |-> r4,
              consulted |-> <<"mdls", "pdfinfo", "markers", "count">>]

(* ----------------------------- files ---------------------------------- *)
cds_output_file == "cds data population/output/output.json"
cds_renamed_file == "cds data population/output/input.json"
rest_input_file == "rest of the data population/input/input.json"
rest_output_file == "rest of the data population/output/output.json"
rest_renamed_file == "rest of the data population/output/input.json"
script_resolution_input_file == "scriptResolution/src/main/resources/input/input.json"
script_resolution_output_file == "scriptResolution/src/main/resources/output/output.json"
script_resolution_renamed_file == "scriptResolution/src/main/resources/output/input.json"
pdfgen_input_file == "pdfgen/src/main/resources/testInput/input.json"
output_pdf_file == "pdfgen/src/main/resources/testOutput/output.pdf"
temp_output == "pdfgen/src/main/resources/testOutput/output_temp.pdf"

Paths ==
    {cds_output_file, cds_renamed_file, rest_input_file, rest_output_file,
     rest_renamed_file, script_resolution_input_file,
     script_resolution_output_file, script_resolution_renamed_file,
     pdfgen_input_file, output_pdf_file, temp_output}

NoFile == [exists |-> FALSE, bytes |-> <<>>]

File(b) == [exists |-> TRUE, bytes |-> b]

\* a stage file left by an earlier run, and one written by this run
JsonOld == <<"{", "o", "}">>
JsonNew == <<"{", "n", "}">>

\* rename_file: unlink dst when it exists, then src.rename(dst); any
\* exception (src missing) is caught and reported as False
rename_file(f, src, dst) ==
    LET f1 == IF f[dst].exists THEN [f EXCEPT ![dst] = NoFile] ELSE f
    IN  IF f1[src].exists
        THEN [ok |-> TRUE, fs |-> [f1 EXCEPT ![dst] = f1[src], ![src] = NoFile]]
        ELSE [ok |-> FALSE, fs |-> f1]

\* copy_file: mkdir of the parents, then shutil.copy2(src, dst)
copy_file(f, src, dst) ==
    IF f[src].exists
    THEN [ok |-> TRUE, fs |-> [f EXCEPT ![dst] = f[src]]]
    ELSE [ok |-> FALSE, fs |-> f]

\* shutil.move(src, dst) inside one directory
move_file(f, src, dst) ==
    IF f[src].exists
    THEN [ok |-> TRUE, fs |-> [f EXCEPT ![dst] = f[src], ![src] = NoFile]]
    ELSE [ok |-> FALSE, fs |-> f]

(* --------------------------- processes -------------------------------- *)
\* the outcomes of an external program: not startable, or an exit code
ProcRuns == {RunRaised} \cup {Completed(rc, <<>>) : rc \in {0, 1, 2}}

\* mutation of run_command: the return code is not looked at
run_command_mut(run) == ~run.raised

\* run_command: True iff subprocess.run returned and returncode == 0
run_command(run) == ~run.raised /\ run.returncode = 0

\* exit code of curl started without --fail: the HTTP status is not looked at
curl_exit(transport_ok, http) == IF transport_ok THEN 0 ELSE 7

\* a curl call: raised, or a transport failure that may leave a partial
\* output file, or an HTTP response with its body
CurlRun(transport_ok, http, wrote, body) ==
    [raised |-> FALSE, returncode |-> curl_exit(transport_ok, http),
     stdout |-> <<>>, http |-> http, wrote |-> wrote, body |-> body]

CurlRaised ==
    [raised |-> TRUE, returncode |-> 0, stdout |-> <<>>, http |-> 0,
     wrote |-> FALSE, body |-> <<>>]

\* body of an HTTP error response
ErrorBody == <<"e", "r", "r">>

\* the part of a response received before the transport broke
PartialBody == <<"%">>

CurlRuns(okBodies) ==
    {CurlRaised, CurlRun(FALSE, 0, FALSE, <<>>), CurlRun(FALSE, 0, TRUE, PartialBody),
     CurlRun(TRUE, 500, TRUE, ErrorBody)}
        \cup {CurlRun(TRUE, 200, TRUE, b) : b \in okBodies}

\* curl -o target: the received body is written to target
curl_output(f, target, run) ==
    IF ~run.raised /\ run.wrote THEN [f EXCEPT ![target] = File(run.body)] ELSE f

(* ------------------------------ main ---------------------------------- *)
\* exit_status while main() has not returned
Running == -1

\* the calls of main() in program order; stamp calls follow "pagecount"
StepOrder ==
    <<"step1", "step2", "step3", "step4", "step5", "step6", "step7_compile",
      "step7_exec", "step8", "step9", "step10", "step11", "pagecount">>

\* one entry of the log of started steps: failed is the raw outcome of the
\* step (non-zero exit code, exception, missing source), http the status
\* the service answered (0 when no answer arrived or no service is called),
\* rc the exit code of the step's program (0 when it has none)
Entry(step, pg, failed, http, rc) ==
    [step |-> step, page |-> pg, failed |-> failed, http |-> http, rc |-> rc]

NoProbe ==
    [done |-> FALSE, mdls |-> RunRaised, pdfinfo |-> RunRaised, rd3 |-> FALSE,
     rd4 |-> FALSE, content |-> <<>>, consulted |-> <<>>]

\* the chunks file contents are built from
ContentChunks ==
    {PageMarker, PagesMarker, CountKey, <<" ">>, <<"2">>, <<"0">>, <<"x">>}

RECURSIVE ContentsUpTo(_)
ContentsUpTo(n) ==
    IF n = 0 THEN {<<>>}
    ELSE LET prev == ContentsUpTo(n - 1)
         IN  prev \cup {c \o k : c \in prev, k \in ContentChunks}

Contents == ContentsUpTo(MaxChunks)

\* documents the render service answers with
RenderBodies ==
    {PageMarker \o PageMarker \o PagesMarker, CountKey \o <<" ", "2">>, <<"x">>}

\* the document the stamp service answers with
StampedBody(sent, pg) == sent \o <<"#">> \o Decimal(pg)

\* a clean checkout, and the files a completed earlier run leaves behind
FreshTree == [p \in Paths |-> NoFile]

UsedTree ==
    [p \in Paths |->
        IF p \in {cds_renamed_file, rest_input_file, rest_renamed_file,
                  script_resolution_input_file, script_resolution_renamed_file,
                  pdfgen_input_file}
        THEN File(JsonOld)
        ELSE IF p = output_pdf_file THEN File(<<"x">>) ELSE NoFile]

Init ==
    /\ pc = "step1"
    /\ exit_status = Running
    /\ fs \in {FreshTree, UsedTree}
    /\ started = <<>>
    /\ page_count = None
    /\ probe = NoProbe
    /\ page = 0
    /\ stamp_log = <<>>

\* return 1 after a failed step, else go on with the next one
Continue(ok, next) ==
    IF ok THEN pc' = next /\ exit_status' = exit_status
    ELSE pc' = "exit" /\ exit_status' = 1

\* a step that runs an external program through run_command; the program
\* may write its output file
RunStep(here, next, run, out, wrote) ==
    /\ pc = here
    /\ fs' = IF ~run.raised /\ wrote THEN [fs EXCEPT ![out] = File(JsonNew)] ELSE fs
    /\ started' = Append(started,
                         Entry(here, 0, run.raised \/ run.returncode # 0, 0, run.returncode))
    /\ Continue(run_command(run), next)
    /\ UNCHANGED <<page_count, probe, page, stamp_log>>

RenameStep(here, next, src, dst) ==
    /\ pc = here
    /\ LET r == rename_file(fs, src, dst)
       IN  /\ fs' = r.fs
           /\ Continue(r.ok, next)
    /\ started' = Append(started, Entry(here, 0, ~fs[src].exists, 0, 0))
    /\ UNCHANGED <<page_count, probe, page, stamp_log>>

CopyStep(here, next, src, dst) ==
    /\ pc = here
    /\ LET r == copy_file(fs, src, dst)
       IN  /\ fs' = r.fs
           /\ Continue(r.ok, next)
    /\ started' = Append(started, Entry(here, 0, ~fs[src].exists, 0, 0))
    /\ UNCHANGED <<page_count, probe, page, stamp_log>>

Step1 ==
    \E run \in ProcRuns, wrote \in BOOLEAN :
        RunStep("step1", "step2", run, cds_output_file, wrote)

Step2 == RenameStep("step2", "step3", cds_output_file, cds_renamed_file)

Step3 == CopyStep("step3", "step4", cds_renamed_file, rest_input_file)

Step4 ==
    \E run \in ProcRuns, wrote \in BOOLEAN :
        RunStep("step4", "step5", run, rest_output_file, wrote)

Step5 == RenameStep("step5", "step6", rest_output_file, rest_renamed_file)

Step6 == CopyStep("step6", "step7_compile", rest_renamed_file,
                  script_resolution_input_file)

Step7Compile ==
    \E run \in ProcRuns :
        RunStep("step7_compile", "step7_exec", run, script_resolution_output_file, FALSE)

Step7Exec ==
    \E run \in ProcRuns, wrote \in BOOLEAN :
        RunStep("step7_exec", "step8", run, script_resolution_output_file, wrote)

Step8 == RenameStep("step8", "step9", script_resolution_output_file,
                    script_resolution_renamed_file)

Step9 == CopyStep("step9", "step10", script_resolution_renamed_file,
                  pdfgen_input_file)

\* upload of the template through run_command(["curl", ...])
Step10 ==
    /\ pc = "step10"
    /\ \E run \in CurlRuns({<<"o", "k">>}) :
        /\ started' = Append(started,
               Entry("step10", 0, run.raised \/ run.returncode # 0, run.http,
                     run.returncode))
        /\ Continue(run_command(run), "step11")
    /\ UNCHANGED <<fs, page_count, probe, page, stamp_log>>

\* render: input.json is read outside the try (an uncaught exception ends
\* the interpreter with status 1), then curl -o output.pdf
Step11 ==
    /\ pc = "step11"
    /\ IF ~fs[pdfgen_input_file].exists
       THEN /\ pc' = "exit"
            /\ exit_status' = 1
            /\ UNCHANGED <<fs, started>>
       ELSE \E run \in CurlRuns(RenderBodies) :
            /\ fs' = curl_output(fs, output_pdf_file, run)
            /\ started' = Append(started,
                   Entry("step11", 0, run.raised \/ run.returncode # 0, run.http,
                         run.returncode))
            /\ Continue(~run.raised /\ run.returncode = 0, "pagecount")
    /\ UNCHANGED <<page_count, probe, page, stamp_log>>

\* page_count = get_pdf_page_count(output_pdf_file), then the None / <= 0 test
GetPageCount ==
    /\ pc = "pagecount"
    /\ \E mdls \in MdlsRuns, pdfinfo \in PdfinfoRuns,
          rd3 \in (IF fs[output_pdf_file].exists THEN BOOLEAN ELSE {FALSE}),
          rd4 \in (IF fs[output_pdf_file].exists THEN BOOLEAN ELSE {FALSE}) :
        LET content == fs[output_pdf_file].bytes
            r == get_pdf_page_count(mdls, pdfinfo, rd3, rd4, content)
        IN  /\ page_count' = r.result
            /\ probe' = [done |-> TRUE, mdls |-> mdls, pdfinfo |-> pdfinfo,
                         rd3 |-> rd3, rd4 |-> rd4, content |-> content,
                         consulted |-> r.consulted]
            /\ started' = Append(started,
                   Entry("pagecount", 0, r.result = None \/ r.result <= 0, 0, 0))
            /\ IF r.result = None \/ r.result <= 0
               THEN pc' = "exit" /\ exit_status' = 1 /\ page' = page
               ELSE pc' = "stamp" /\ exit_status' = exit_status /\ page' = 1
    /\ UNCHANGED <<fs, stamp_log>>

\* mutation of range_stop: range(1, page_count)
range_stop_mut(n) == n

\* range(1, page_count + 1): the exclusive end of the loop
range_stop(n) == n + 1

\* mutation of stamp_output: curl writes straight over the working PDF
stamp_output_mut == output_pdf_file

\* the file curl -o writes the stamped document to
stamp_output == temp_output

\* one iteration of the stamping loop
StampPage ==
    /\ pc = "stamp"
    /\ page < range_stop(page_count)
    /\ LET sent == fs[output_pdf_file].bytes
       IN \E run \in CurlRuns({StampedBody(sent, page)}) :
            LET f1 == curl_output(fs, stamp_output, run)
                called == ~run.raised /\ run.returncode = 0
                mv == IF called THEN move_file(f1, temp_output, output_pdf_file)
                      ELSE [ok |-> FALSE, fs |-> f1]
            IN  /\ fs' = mv.fs
                /\ started' = Append(started,
                       Entry("stamp", page, run.raised \/ run.returncode # 0, run.http,
                             run.returncode))
                /\ stamp_log' = Append(stamp_log,
                       [page |-> page, sent |-> sent,
                        failed |-> run.raised \/ run.returncode # 0,
                        http |-> run.http, body |-> run.body])
                /\ IF mv.ok
                   THEN pc' = "stamp" /\ exit_status' = exit_status /\ page' = page + 1
                   ELSE pc' = "exit" /\ exit_status' = 1 /\ page' = page
    /\ UNCHANGED <<page_count, probe>>

\* the loop is exhausted: main() returns 0
Finish ==
    /\ pc = "stamp"
    /\ ~(page < range_stop(page_count))
    /\ pc' = "exit"
    /\ exit_status' = 0
    /\ UNCHANGED <<fs, started, page_count, probe, page, stamp_log>>

Next ==
    \/ Step1 \/ Step2 \/ Step3 \/ Step4 \/ Step5 \/ Step6
    \/ Step7Compile \/ Step7Exec \/ Step8 \/ Step9 \/ Step10 \/ Step11
    \/ GetPageCount \/ StampPage \/ Finish

Spec == Init /\ [][Next]_vars

(* ---------- get_pdf_page_count on every bounded file content ---------- *)
\* main() about to call get_pdf_page_count: steps 1..11 have succeeded and
\* output.pdf holds an arbitrary content, or is missing
InitResolver ==
    /\ pc = "pagecount"
    /\ exit_status = Running
    /\ \E f \in {File(c) : c \in Contents} \cup {NoFile} :
           fs = [UsedTree EXCEPT ![output_pdf_file] = f]
    /\ started = [i \in 1..12 |->
                     Entry(StepOrder[i], 0, FALSE, IF i >= 11 THEN 200 ELSE 0, 0)]
    /\ page_count = None
    /\ probe = NoProbe
    /\ page = 0
    /\ stamp_log = <<>>

NextResolver == GetPageCount

SpecResolver == InitResolver /\ [][NextResolver]_vars

(* ============================ properties ============================== *)
\* number of positions of text at which sub occurs
Occurrences(text, sub) ==
    Cardinality({i \in 1..Len(text) : MatchAt(text, sub, i)})

\* first strictly positive element of a sequence of strategy results
RECURSIVE FirstPositive(_)
FirstPositive(rs) ==
    IF rs = <<>> THEN None
    ELSE IF Head(rs) # None /\ Head(rs) > 0 THEN Head(rs)
         ELSE FirstPositive(Tail(rs))

LastStarted == started[Len(started)]

(* C1: the steps of main() are started only in the fixed program order,    *)
(* each at most once (the log of started steps is a prefix of StepOrder    *)
(* followed by the stamp calls 1, 2, ...); a step that fails (non-zero     *)
(* exit code, exception, failed rename/copy) is the last one started and   *)
(* the run has ended with status 1.                                        *)
C1_FixedOrderAbortOnFailure ==
    /\ \A i \in 1..Len(started) :
          IF i <= Len(StepOrder)
          THEN started[i].step = StepOrder[i] /\ started[i].page = 0
          ELSE /\ started[i].step = "stamp"
               /\ started[i].page = i - Len(StepOrder)
    /\ \A i \in 1..Len(started) :
          (started[i].failed \/ started[i].rc # 0) =>
              i = Len(started) /\ pc = "exit" /\ exit_status = 1

\* the second Maven call (step 7) exited with code 2 after seven
\* successful steps
C1_Witness ==
    /\ Len(started) = 8
    /\ started[8].step = "step7_exec"
    /\ started[8].failed
    /\ started[8].rc = 2
    /\ pc = "exit"
    /\ exit_status = 1

(* C2: an HTTP call answered with an error status (transport intact) is    *)
(* the last step started, the run has ended with status 1, and the error   *)
(* body has not become the working PDF.                                    *)
C2_HttpErrorStatusIsFatal ==
    /\ \A i \in 1..Len(started) :
          started[i].http >= 400 =>
              i = Len(started) /\ pc = "exit" /\ exit_status = 1
    /\ (Len(started) >= 1 /\ LastStarted.http >= 400
            /\ LastStarted.step \in {"step11", "stamp"})
          => fs[output_pdf_file] # File(ErrorBody)

(* C3: a rename step whose source file does not exist fails the run and    *)
(* leaves every file, the destination included, as it was.                 *)
C3_RenameMissingSourceLeavesDestination ==
    [][\A r \in {<<"step2", cds_output_file, cds_renamed_file>>,
                 <<"step5", rest_output_file, rest_renamed_file>>,
                 <<"step8", script_resolution_output_file,
                   script_resolution_renamed_file>>} :
          (pc = r[1] /\ ~fs[r[2]].exists) =>
              /\ pc' = "exit"
              /\ exit_status' = 1
              /\ fs'[r[3]] = fs[r[3]]
              /\ fs' = fs]_vars

(* C4: with page count N >= 1 the i-th stamp call carries page = i and     *)
(* i <= N; only the last call issued can have failed, and a failed call    *)
(* ends the run; a run whose calls all succeeded ends after exactly N.     *)
C4_StampCallsInOrder ==
    LET n == Len(stamp_log)
    IN  /\ n >= 1 => page_count >= 1
        /\ \A i \in 1..n : stamp_log[i].page = i /\ i <= page_count
        /\ \A i \in 1..n :
              stamp_log[i].failed => i = n /\ pc = "exit" /\ exit_status = 1
        /\ (pc = "exit" /\ page_count >= 1
                /\ \A i \in 1..n : ~stamp_log[i].failed)
              => n = page_count

\* two pages, both stamped, main() returned 0
C4_Witness ==
    /\ pc = "exit"
    /\ exit_status = 0
    /\ page_count = 2
    /\ Len(stamp_log) = 2
    /\ stamp_log[2].page = 2

StrategyResults ==
    <<mdls_strategy(probe.mdls), pdfinfo_strategy(probe.pdfinfo),
      marker_strategy(probe.rd3, probe.content),
      count_strategy(probe.rd4, probe.content)>>

(* C6: get_pdf_page_count returns the result of the first strategy, in the *)
(* order metadata, pdfinfo, byte markers, '/Count', whose result is        *)
(* present and positive, and None when there is none.                      *)
C6_FirstPositiveStrategyWins ==
    probe.done => page_count = FirstPositive(StrategyResults)

(* C7: when mdls succeeds and prints a positive attribute value v the      *)
(* resolver returns v and consults no other strategy.                      *)
C7_MetadataValueWins ==
    probe.done =>
        \A v \in 1..MaxPages :
            probe.mdls = Completed(0, MdlsFormat(v)) =>
                page_count = v /\ probe.consulted = <<"mdls">>

\* mdls reports MaxPages while pdfinfo and the markers would say otherwise
C7_Witness ==
    /\ probe.done
    /\ probe.mdls = Completed(0, MdlsFormat(MaxPages))
    /\ probe.pdfinfo = Completed(0, PdfinfoFormat(1))
    /\ probe.rd3
    /\ probe.content = PageMarker \o PageMarker \o PagesMarker
    /\ page_count = MaxPages

(* C8: with no answer from mdls and pdfinfo and a readable file that       *)
(* contains P >= 1 occurrences of '/Type /Page', Q of them '/Type /Pages', *)
(* the resolver returns P - Q when that is positive and P otherwise; three *)
(* '/Type /Page' with one '/Type /Pages' give 2.                           *)
C8_MarkerDifference ==
    LET P == Occurrences(probe.content, PageMarker)
        Q == Occurrences(probe.content, PagesMarker)
    IN  (/\ probe.done
         /\ mdls_strategy(probe.mdls) = None
         /\ pdfinfo_strategy(probe.pdfinfo) = None
         /\ probe.rd3
         /\ P >= 1)
        => /\ page_count = IF P - Q > 0 THEN P - Q ELSE P
           /\ (P = 3 /\ Q = 1) => page_count = 2

\* the example of the specification
C8_Witness ==
    /\ probe.done
    /\ probe.mdls.raised
    /\ probe.pdfinfo.raised
    /\ probe.rd3
    /\ Occurrences(probe.content, PageMarker) = 3
    /\ Occurrences(probe.content, PagesMarker) = 1
    /\ page_count = 2

(* C9: when no strategy has an answer (mdls and pdfinfo unavailable or     *)
(* unparsable, no page marker in the bytes or the file unreadable, no      *)
(* '/Count <integer>' or the file unreadable) the resolver returns None.   *)
C9_AbsentWhenNoStrategyAnswers ==
    (/\ probe.done
     /\ mdls_strategy(probe.mdls) = None
     /\ pdfinfo_strategy(probe.pdfinfo) = None
     /\ (~probe.rd3 \/ Occurrences(probe.content, PageMarker) = 0)
     /\ (~probe.rd4 \/ count_strategy(TRUE, probe.content) = None))
    => page_count = None

(* C10: when the byte-marker strategy answers, the count of '/Type /Page'  *)
(* is >= the count of '/Type /Pages'; the result is the number of          *)
(* '/Type /Page' occurrences that are not '/Type /Pages' occurrences when  *)
(* that is >= 1, else the two counts are equal and it is their value; it   *)
(* is 0 exactly when the file has no marker.                               *)
C10_MarkerResultNonNegative ==
    LET c == probe.content
        P == BytesCount(c, PageMarker)
        Q == BytesCount(c, PagesMarker)
        single == Cardinality({i \in 1..Len(c) :
                      MatchAt(c, PageMarker, i) /\ ~MatchAt(c, PagesMarker, i)})
    IN  (probe.done /\ Len(probe.consulted) = 3)
        => /\ P >= Q
           /\ page_count >= 0
           /\ single >= 1 => page_count = single
           /\ single = 0 => (P = Q /\ page_count = Q)
           /\ page_count = 0 <=> Occurrences(c, PageMarker) = 0

\* the else branch: every '/Type /Page' is a '/Type /Pages'
C10_Witness ==
    /\ probe.done
    /\ Len(probe.consulted) = 3
    /\ BytesCount(probe.content, PageMarker) = 2
    /\ BytesCount(probe.content, PagesMarker) = 2
    /\ page_count = 2
====
